---- MODULE Spec2Model ----
(***************************************************************************)
(* Model of app.py: a Flask application with two tables (User, Project),   *)
(* a Flask-Login session and ten route handlers.  Every handler is one     *)
(* action; a request is handled atomically (one transaction per request).  *)
(* Strings are sequences of one-character strings so that str.strip() and  *)
(* str.lower() are computed, not assumed.                                  *)
(***************************************************************************)
EXTENDS Integers, Sequences, FiniteSets, TLC

VARIABLES
    User,     \* the rows of the user table (class User)
    Project,  \* the rows of the project table (class Project)
    session,  \* the user id Flask-Login keeps in the session, 0 for none
    now,      \* the last value datetime.utcnow returned
    req,      \* the request being answered
    resp      \* its response

vars == <<User, Project, session, now, req, resp>>

(***************************************************************************)
(* Bounds                                                                  *)
(***************************************************************************)
\* Largest value the clock may reach.  The clock is read by the column
\* defaults only; a request reads a later time than every request before it.
MaxTime == 2

(***************************************************************************)
(* Strings                                                                 *)
(***************************************************************************)
Space == " "

\* str.lower() on one character
LowerChar(c) == IF c = "A" THEN "a" ELSE IF c = "B" THEN "b" ELSE c

\* mutant of lower: the case is kept
lower_keep(s) == s

\* str.lower()
lower(s) == [i \in 1..Len(s) |-> LowerChar(s[i])]

RECURSIVE lstrip(_)
lstrip(s) == IF s # <<>> /\ Head(s) = Space THEN lstrip(Tail(s)) ELSE s

RECURSIVE rstrip(_)
rstrip(s) ==
    IF s # <<>> /\ s[Len(s)] = Space THEN rstrip(SubSeq(s, 1, Len(s) - 1)) ELSE s

\* mutant of strip: the whitespace is kept
strip_none(s) == s

\* str.strip()
strip(s) == rstrip(lstrip(s))

\* request.form.get(key, default)
FormGet(form, key, default) == IF key \in DOMAIN form THEN form[key] ELSE default

(***************************************************************************)
(* Password hashing (werkzeug.security)                                    *)
(***************************************************************************)
CharCode(c) == IF c = "p" THEN 1 ELSE IF c = "q" THEN 2 ELSE 3

RECURSIVE StrCode(_)
StrCode(s) == IF s = <<>> THEN 0 ELSE CharCode(Head(s)) + 4 * StrCode(Tail(s))

\* the salted one-way digest; collision-free on the passwords drawn here
Digest(salt, password) == 7 * StrCode(password) + salt

\* generate_password_hash(password): a fresh salt and the salted digest
generate_password_hash(password, salt) ==
    [salt |-> salt, digest |-> Digest(salt, password)]

\* check_password_hash(pwhash, password)
check_password_hash(pwhash, password) ==
    Digest(pwhash.salt, password) = pwhash.digest

\* mutant of check_password: the password is not looked at
check_password_any(user, password) == TRUE

\* User.check_password
check_password(user, password) == check_password_hash(user.password_hash, password)

(***************************************************************************)
(* Inputs                                                                  *)
(***************************************************************************)
NoForm == <<>>

Salts == {1, 2}
NameInputs == {<<>>, <<" ", "n", " ">>}
EmailInputs == {<<>>, <<" ">>, <<"a">>, <<" ", "A", " ">>, <<"b">>}
PasswordInputs == {<<>>, <<"p">>, <<"q">>}

\* forms posted to /register, /login and /profile
RegisterForms ==
    [full_name : NameInputs, email : EmailInputs, password : PasswordInputs]

LoginForms == [email : EmailInputs, password : PasswordInputs]

ProfileForms == {NoForm} \cup [full_name : NameInputs]

TitleInputs == {<<>>, <<" ">>, <<" ", "t">>}
TextInputs == {<<"x", " ">>}
StatusInputs == {"Completed"}
CheckboxInputs == {"on"}

TitleForms == {NoForm} \cup {[title |-> t] : t \in TitleInputs}

OtherForms ==
    {NoForm}
    \cup {[description |-> v] : v \in TextInputs}
    \cup {[tech_stack |-> v] : v \in TextInputs}
    \cup {[feature_checklist |-> v] : v \in TextInputs}
    \cup {[deployment_url |-> v] : v \in TextInputs}
    \cup {[status |-> v] : v \in StatusInputs}
    \cup {[is_public |-> v] : v \in CheckboxInputs}

\* forms posted to /projects/create and /projects/<id>/edit: an optional
\* title and at most one other field
ProjectForms == {a @@ b : a \in TitleForms, b \in OtherForms}

\* the two accounts of the catalog specification, as /register stores them
Alice == [full_name |-> <<" ", "n", " ">>, email |-> <<" ", "A", " ">>, password |-> <<"p">>]
Bob == [full_name |-> <<>>, email |-> <<"b">>, password |-> <<"q">>]

Credentials(form) == [email |-> form.email, password |-> form.password]

\* the logins of the catalog specification: both accounts and a wrong password
CatalogLoginForms ==
    {Credentials(Alice), Credentials(Bob), [Credentials(Alice) EXCEPT !.password = <<"q">>]}

\* the inputs of the whole-application specification
SmallRegisterForms == {Alice, Bob, [Bob EXCEPT !.password = <<>>]}
SmallProfileForms == {[full_name |-> <<"m", " ">>]}
SmallProjectForms == {NoForm, [title |-> <<" ", "t">>]}

PidInputs == 1..MaxTime

(***************************************************************************)
(* Database helpers                                                        *)
(***************************************************************************)
Max(S) == CHOOSE m \in S : \A n \in S : n <= m

\* INTEGER PRIMARY KEY of SQLite: largest rowid plus one
NextId(rows) == IF rows = {} THEN 1 ELSE Max({r.id : r \in rows}) + 1

\* User.query.filter_by(email=email): the rows with that email
UsersByEmail(email) == {u \in User : u.email = email}

\* Project.query.get(project_id): the rows with that primary key
ProjectsById(project_id) == {p \in Project : p.id = project_id}

\* load_user: User.query.get(int(user_id))
load_user(user_id) == {u \in User : u.id = user_id}

\* flask_login.current_user: the row the session resolves to, if any
current_user == IF session = 0 THEN {} ELSE load_user(session)

is_authenticated == current_user # {}

\* the one element of a one-row result
Row(rows) == CHOOSE r \in rows : TRUE

(***************************************************************************)
(* Requests and responses                                                  *)
(***************************************************************************)
\* the route, the method and the <int:project_id> of the URL (0: none)
Request(op, method, project_id) ==
    [op |-> op, method |-> method, project_id |-> project_id]

\* render_template(...): 200 with a body (the ids of the listed projects)
Render(body) == [status |-> 200, to |-> "", flash |-> "", body |-> body]

\* flash(message) then redirect(url_for(endpoint))
Redirect(endpoint, message) ==
    [status |-> 302, to |-> endpoint, flash |-> message, body |-> <<>>]

\* abort(code) and get_or_404
Abort(code) == [status |-> code, to |-> "", flash |-> "", body |-> <<>>]

\* flask_login's unauthorized(): redirect to login_manager.login_view
Unauthorized == Redirect("login", "Please log in to access this page.")

\* mutant of login_required: the decorator is missing
login_required_off(view) == view

\* @login_required: the view runs only for an authenticated session
login_required(view) ==
    IF is_authenticated
    THEN view
    ELSE /\ resp' = Unauthorized
         /\ UNCHANGED <<User, Project, session, now>>

(***************************************************************************)
(* Initial state: empty tables, no session                                 *)
(***************************************************************************)
Init ==
    /\ User = {}
    /\ Project = {}
    /\ session = 0
    /\ now = 0
    /\ req = Request("index", "GET", 0)
    /\ resp = Render(<<>>)

(***************************************************************************)
(* Routes: auth and profile                                                *)
(***************************************************************************)
index ==
    /\ req' = Request("index", "GET", 0)
    /\ resp' = Render(<<>>)
    /\ UNCHANGED <<User, Project, session, now>>

register(method, form, salt) ==
    /\ req' = Request("register", method, 0)
    /\ IF method = "POST"
       THEN LET full_name == strip(FormGet(form, "full_name", <<>>))
                email == lower(strip(FormGet(form, "email", <<>>)))
                password == FormGet(form, "password", <<>>)
            IN  IF email = <<>> \/ password = <<>>
                THEN /\ resp' = Redirect("register", "Email and password are required.")
                     /\ UNCHANGED User
                ELSE IF UsersByEmail(email) # {}
                THEN /\ resp' = Redirect("login", "Email already registered. Try logging in.")
                     /\ UNCHANGED User
                ELSE /\ User' = User \cup
                            {[id |-> NextId(User),
                              full_name |-> full_name,
                              email |-> email,
                              password_hash |-> generate_password_hash(password, salt)]}
                     /\ resp' = Redirect("login", "Registration successful! Please log in.")
       ELSE /\ resp' = Render(<<>>)
            /\ UNCHANGED User
    /\ UNCHANGED <<Project, session, now>>

login(method, form) ==
    /\ req' = Request("login", method, 0)
    /\ IF method = "POST"
       THEN LET email == lower(strip(FormGet(form, "email", <<>>)))
                password == FormGet(form, "password", <<>>)
                user == UsersByEmail(email)
            IN  IF user # {} /\ check_password(Row(user), password)
                THEN /\ session' = Row(user).id
                     /\ resp' = Redirect("dashboard", "")
                ELSE /\ resp' = Redirect("login", "Invalid credentials.")
                     /\ UNCHANGED session
       ELSE /\ resp' = Render(<<>>)
            /\ UNCHANGED session
    /\ UNCHANGED <<User, Project, now>>

dashboard ==
    /\ req' = Request("dashboard", "GET", 0)
    /\ login_required(
         /\ resp' = Render(<<>>)
         /\ UNCHANGED <<User, Project, session, now>>)

profile(method, form) ==
    /\ req' = Request("profile", method, 0)
    /\ login_required(
         /\ IF method = "POST"
            THEN LET me == Row(current_user)
                     full_name == strip(FormGet(form, "full_name", <<>>))
                 IN  /\ User' = (User \ {me}) \cup {[me EXCEPT !.full_name = full_name]}
                     /\ resp' = Redirect("profile", "Profile updated!")
            ELSE /\ resp' = Render(<<>>)
                 /\ UNCHANGED User
         /\ UNCHANGED <<Project, session, now>>)

logout ==
    /\ req' = Request("logout", "GET", 0)
    /\ login_required(
         /\ session' = 0
         /\ resp' = Redirect("index", "Logged out.")
         /\ UNCHANGED <<User, Project, now>>)

(***************************************************************************)
(* Routes: projects (CRUD)                                                 *)
(***************************************************************************)
\* mutant of ProjectsByOwner: the filter is missing
ProjectsByAnyOwner(owner_id) == Project

\* Query.filter_by(owner_id=owner_id)
ProjectsByOwner(owner_id) == {p \in Project : p.owner_id = owner_id}

\* order_by(Project.created_at.desc()).all(): the rows, latest first
RECURSIVE OrderByCreatedDesc(_)
OrderByCreatedDesc(rows) ==
    IF rows = {}
    THEN <<>>
    ELSE LET first == CHOOSE p \in rows : \A q \in rows : q.created_at <= p.created_at
         IN  <<first>> \o OrderByCreatedDesc(rows \ {first})

\* what the projects.html template is given
Ids(rows) == [i \in 1..Len(rows) |-> rows[i].id]

projects ==
    /\ req' = Request("projects", "GET", 0)
    /\ login_required(
         LET my_projects == OrderByCreatedDesc(ProjectsByOwner(Row(current_user).id))
         IN  /\ resp' = Render(Ids(my_projects))
             /\ UNCHANGED <<User, Project, session, now>>)

\* True if request.form.get("is_public") == "on" else False
Checkbox(form) == "is_public" \in DOMAIN form /\ form["is_public"] = "on"

create_project(form) ==
    /\ req' = Request("create_project", "POST", 0)
    /\ login_required(
         LET title == strip(FormGet(form, "title", <<>>))
             description == strip(FormGet(form, "description", <<>>))
             tech_stack == strip(FormGet(form, "tech_stack", <<>>))
             feature_checklist == strip(FormGet(form, "feature_checklist", <<>>))
             deployment_url == strip(FormGet(form, "deployment_url", <<>>))
             status == FormGet(form, "status", "Active")
             is_public == Checkbox(form)
         IN  IF title = <<>>
             THEN /\ resp' = Redirect("dashboard", "Project title is required.")
                  /\ UNCHANGED <<User, Project, session, now>>
             ELSE \* the two column defaults read the clock one after the other
                  \E created_at \in {now + 1}, updated_at \in {now + 1, now + 2} :
                    /\ updated_at <= MaxTime
                    /\ Project' = Project \cup
                         {[id |-> NextId(Project),
                           owner_id |-> Row(current_user).id,
                           title |-> title,
                           description |-> description,
                           tech_stack |-> tech_stack,
                           feature_checklist |-> feature_checklist,
                           deployment_url |-> deployment_url,
                           status |-> status,
                           is_public |-> is_public,
                           created_at |-> created_at,
                           updated_at |-> updated_at]}
                    /\ now' = updated_at
                    /\ resp' = Redirect("projects", "Project created.")
                    /\ UNCHANGED <<User, session>>)

\* mutant of Edited: a missing description is read as "", not as the stored one
Edited_overwrite(proj, form) ==
    [proj EXCEPT
       !.title = strip(FormGet(form, "title", proj.title)),
       !.description = strip(FormGet(form, "description", <<>>)),
       !.tech_stack = strip(FormGet(form, "tech_stack", proj.tech_stack)),
       !.feature_checklist =
           strip(FormGet(form, "feature_checklist", proj.feature_checklist)),
       !.deployment_url = strip(FormGet(form, "deployment_url", proj.deployment_url)),
       !.status = FormGet(form, "status", proj.status),
       !.is_public = ("is_public" \in DOMAIN form /\ form["is_public"] = "on")]

\* the assignments of edit_project applied to the fetched row
Edited(proj, form) ==
    [proj EXCEPT
       !.title = strip(FormGet(form, "title", proj.title)),
       !.description = strip(FormGet(form, "description", proj.description)),
       !.tech_stack = strip(FormGet(form, "tech_stack", proj.tech_stack)),
       !.feature_checklist =
           strip(FormGet(form, "feature_checklist", proj.feature_checklist)),
       !.deployment_url = strip(FormGet(form, "deployment_url", proj.deployment_url)),
       !.status = FormGet(form, "status", proj.status),
       !.is_public = Checkbox(form)]

\* mutant of Flush: the column has no onupdate
Flush_noonupdate(old, new, clock) == new

\* db.session.commit() of a loaded row: an UPDATE is emitted only if some
\* column has a net change, and only an UPDATE fires onupdate=datetime.utcnow
Flush(old, new, clock) ==
    IF new = old THEN old ELSE [new EXCEPT !.updated_at = clock]

\* mutant of NotOwner: the ownership check is missing
NotOwner_never(proj) == FALSE

\* proj.owner_id != current_user.id
NotOwner(proj) == proj.owner_id # Row(current_user).id

edit_project(method, project_id, form) ==
    /\ req' = Request("edit_project", method, project_id)
    /\ login_required(
         IF ProjectsById(project_id) = {}
         THEN /\ resp' = Abort(404)
              /\ UNCHANGED <<User, Project, session, now>>
         ELSE LET proj == Row(ProjectsById(project_id))
              IN  IF NotOwner(proj)
                  THEN /\ resp' = Abort(403)
                       /\ UNCHANGED <<User, Project, session, now>>
                  ELSE IF method = "POST"
                  THEN LET saved == Flush(proj, Edited(proj, form), now + 1)
                       IN  /\ saved # proj => now + 1 <= MaxTime
                           /\ Project' = (Project \ {proj}) \cup {saved}
                           /\ now' = IF saved # proj THEN now + 1 ELSE now
                           /\ resp' = Redirect("projects", "Project updated.")
                           /\ UNCHANGED <<User, session>>
                  ELSE /\ resp' = Render(<<proj.id>>)
                       /\ UNCHANGED <<User, Project, session, now>>)

delete_project(project_id) ==
    /\ req' = Request("delete_project", "POST", project_id)
    /\ login_required(
         IF ProjectsById(project_id) = {}
         THEN /\ resp' = Abort(404)
              /\ UNCHANGED <<User, Project, session, now>>
         ELSE LET proj == Row(ProjectsById(project_id))
              IN  IF NotOwner(proj)
                  THEN /\ resp' = Abort(403)
                       /\ UNCHANGED <<User, Project, session, now>>
                  ELSE /\ Project' = Project \ {proj}
                       /\ resp' = Redirect("projects", "Project deleted.")
                       /\ UNCHANGED <<User, session, now>>)

(***************************************************************************)
(* Specifications                                                          *)
(***************************************************************************)
\* the whole application from an empty database, on a few forms
Next ==
    \/ index
    \/ register("GET", NoForm, 1)
    \/ \E form \in SmallRegisterForms : register("POST", form, 1)
    \/ login("GET", NoForm)
    \/ \E form \in CatalogLoginForms : login("POST", form)
    \/ dashboard
    \/ profile("GET", NoForm)
    \/ \E form \in SmallProfileForms : profile("POST", form)
    \/ logout
    \/ projects
    \/ \E form \in SmallProjectForms : create_project(form)
    \/ \E project_id \in PidInputs : edit_project("GET", project_id, NoForm)
    \/ \E project_id \in PidInputs, form \in SmallProjectForms :
         edit_project("POST", project_id, form)
    \/ \E project_id \in PidInputs : delete_project(project_id)

Spec == Init /\ [][Next]_vars

\* the identity store alone, on every register, login and profile form
NextIdentity ==
    \/ index
    \/ register("GET", NoForm, 1)
    \/ \E form \in RegisterForms, salt \in Salts : register("POST", form, salt)
    \/ login("GET", NoForm)
    \/ \E form \in LoginForms : login("POST", form)
    \/ dashboard
    \/ profile("GET", NoForm)
    \/ \E form \in ProfileForms : profile("POST", form)
    \/ logout

SpecIdentity == Init /\ [][NextIdentity]_vars

\* the database after Alice and Bob have registered
InitCatalog ==
    /\ User = {[id |-> 1,
                full_name |-> strip(Alice.full_name),
                email |-> lower(strip(Alice.email)),
                password_hash |-> generate_password_hash(Alice.password, 1)],
               [id |-> 2,
                full_name |-> strip(Bob.full_name),
                email |-> lower(strip(Bob.email)),
                password_hash |-> generate_password_hash(Bob.password, 2)]}
    /\ Project = {}
    /\ session = 0
    /\ now = 0
    /\ req = Request("index", "GET", 0)
    /\ resp = Render(<<>>)

\* the project catalog of two registered users, on every project form
NextCatalog ==
    \/ \E form \in CatalogLoginForms : login("POST", form)
    \/ logout
    \/ projects
    \/ \E form \in ProjectForms : create_project(form)
    \/ \E project_id \in PidInputs : edit_project("GET", project_id, NoForm)
    \/ \E project_id \in PidInputs, form \in ProjectForms :
         edit_project("POST", project_id, form)
    \/ \E project_id \in PidInputs : delete_project(project_id)

SpecCatalog == InitCatalog /\ [][NextCatalog]_vars

(***************************************************************************)
(* Properties                                                              *)
(***************************************************************************)
Fields ==
    {"title", "description", "tech_stack", "feature_checklist", "deployment_url",
     "status", "is_public"}

Protected ==
    {"dashboard", "profile", "logout", "projects", "create_project", "edit_project",
     "delete_project"}

\* the rows of one project before and after a step
Before(project_id) == Row(ProjectsById(project_id))
After(project_id) == Row({p \in Project' : p.id = project_id})

\* this step is a POST to /register
RegisterStep == req'.op = "register" /\ req'.method = "POST"

\* two characters that differ in case at most
SameLetter(c, d) == c = d \/ {c, d} = {"a", "A"} \/ {c, d} = {"b", "B"}

\* two strings that differ in case at most
SameIgnoringCase(s, t) ==
    Len(s) = Len(t) /\ \A i \in 1..Len(s) : SameLetter(s[i], t[i])

\* at most one User per lowercase email, after the step
OnePerEmail == \A u, v \in User' : SameIgnoringCase(u.email, v.email) => u = v

ConflictWarning == Redirect("login", "Email already registered. Try logging in.")

\* the normalized email of a form is already stored
Stored(form) == \E u \in User : u.email = lower(strip(form.email))

\* C1 as stated: the store never holds two Users with the same lowercase
\* email, and every Register whose normalized email is already stored is
\* answered with the conflict warning and leaves the User table unchanged.
C1_AsStated ==
    [][/\ OnePerEmail
       /\ RegisterStep =>
            \A form \in RegisterForms, salt \in Salts :
              (Stored(form) /\ register("POST", form, salt)) =>
                (resp' = ConflictWarning /\ User' = User)]_vars

\* C1 amended: the store never holds two Users with the same lowercase email;
\* a Register whose normalized email is already stored leaves the User table
\* unchanged, and is answered with the conflict warning when its password is
\* not empty (an empty password is answered with the validation message).
C1_RegisterUnique ==
    [][/\ OnePerEmail
       /\ RegisterStep =>
            \A form \in RegisterForms, salt \in Salts :
              (Stored(form) /\ register("POST", form, salt)) =>
                /\ User' = User
                /\ form.password # <<>> => resp' = ConflictWarning
                /\ form.password = <<>> =>
                     resp' = Redirect("register", "Email and password are required.")]_vars

\* a duplicate registration was refused while two Users are stored
C1_Witness ==
    /\ req.op = "register"
    /\ resp = ConflictWarning
    /\ Cardinality(User) = 2

\* this step is a POST to /login
LoginStep == req'.op = "login" /\ req'.method = "POST"

\* the Users a login form names and whose stored digest its password yields
Verified(form) ==
    {u \in User : /\ u.email = lower(strip(form.email))
                  /\ Digest(u.password_hash.salt, form.password) = u.password_hash.digest}

\* C2 as stated: a login binds the session to the User with the normalized
\* email whose stored hash the password verifies against, and to that User
\* only; after any other login the session is bound to no user.
C2_AsStated ==
    [][LoginStep =>
         \A form \in LoginForms :
           login("POST", form) =>
             IF Verified(form) # {}
             THEN session' \in {u.id : u \in Verified(form)}
             ELSE session' = 0]_vars

\* C2 amended: a login binds the session to the User with the normalized
\* email whose stored hash the password verifies against; any other login
\* (a wrong password, the empty password, an unknown email) establishes no
\* session: it answers "Invalid credentials." and leaves the session bound
\* to whatever it was bound to before, to no user if it was anonymous.
C2_LoginIff ==
    [][LoginStep =>
         \A form \in LoginForms :
           login("POST", form) =>
             /\ IF Verified(form) # {}
                THEN /\ session' \in {u.id : u \in Verified(form)}
                     /\ resp' = Redirect("dashboard", "")
                ELSE /\ session' = session
                     /\ resp' = Redirect("login", "Invalid credentials.")
             /\ form.password = <<>> => Verified(form) = {}]_vars

\* a login was refused although Users are stored, and no session exists
C2_Witness ==
    /\ req.op = "login"
    /\ resp = Redirect("login", "Invalid credentials.")
    /\ Cardinality(User) = 2
    /\ session = 0

\* the ids a rendered list shows
Listed == {resp.body[i] : i \in 1..Len(resp.body)}

\* C3: the list rendered for the logged-in user holds exactly the projects
\* whose owner_id is that user's id, each once, and no project of another.
C3_ListOwnedOnly ==
    (req.op = "projects" /\ resp.status = 200) =>
      /\ session # 0
      /\ Listed = {p.id : p \in {q \in Project : q.owner_id = session}}
      /\ Len(resp.body) = Cardinality(Listed)

\* a list was rendered while another user owns a project too
C3_Witness ==
    /\ req.op = "projects"
    /\ resp.status = 200
    /\ Listed # {}
    /\ \E p \in Project : p.owner_id # session

\* this step is an Edit or a Delete of a project another user owns
NonOwnerStep ==
    /\ req'.op \in {"edit_project", "delete_project"}
    /\ is_authenticated
    /\ \E p \in Project : p.id = req'.project_id /\ p.owner_id # session

\* C4: an Edit or Delete by a logged-in user who does not own the target
\* project is answered 403 and changes no row.
C4_NonOwnerForbidden ==
    [][NonOwnerStep =>
         /\ resp' = Abort(403)
         /\ Project' = Project
         /\ User' = User]_vars

\* a Delete of another user's project was refused
C4_Witness ==
    /\ req.op = "delete_project"
    /\ resp = Abort(403)
    /\ \E p \in Project : p.id = req.project_id /\ p.owner_id # session

\* the title of a form is missing, empty or only whitespace
BlankTitle(form) ==
    LET title == FormGet(form, "title", <<>>)
    IN  \A i \in 1..Len(title) : title[i] = Space

\* C5: a Create whose title is empty or only whitespace stores no Project
\* row, and a logged-in user is answered with the validation message.
C5_BlankTitleRejected ==
    [][req'.op = "create_project" =>
         \A form \in ProjectForms :
           (BlankTitle(form) /\ create_project(form)) =>
             /\ Project' = Project
             /\ is_authenticated =>
                  resp' = Redirect("dashboard", "Project title is required.")]_vars

\* a Create was refused for its title while a project is stored
C5_Witness ==
    /\ req.op = "create_project"
    /\ resp = Redirect("dashboard", "Project title is required.")
    /\ Project # {}

\* this step is a successful Edit by the owner
EditedStep ==
    /\ req'.op = "edit_project"
    /\ req'.method = "POST"
    /\ resp' = Redirect("projects", "Project updated.")

\* every field of Omitted that the form leaves out keeps its value
Retains(form, project_id, Omitted) ==
    \A field \in Omitted \ DOMAIN form :
      After(project_id)[field] = Before(project_id)[field]

C7_TitleNonEmpty == \A p \in Project : p.title # <<>>

\* C8: while the session resolves to no user, every protected route answers
\* with the redirect to the login page and changes no row and no session.
C8_AnonymousRefused ==
    [][(~is_authenticated /\ req'.op \in Protected) =>
         /\ resp' = Unauthorized
         /\ User' = User
         /\ Project' = Project
         /\ session' = session]_vars

\* after a logout, a Delete of a stored project was refused
C8_Witness ==
    /\ req.op = "delete_project"
    /\ resp = Unauthorized
    /\ session = 0
    /\ \E p \in Project : p.id = req.project_id

\* created_at of every project that stays stored is unchanged by the step
CreatedOnce ==
    \A p \in Project, q \in Project' : p.id = q.id => q.created_at = p.created_at

\* old and new differ in a column other than updated_at
NetChange(old, new) == [new EXCEPT !.updated_at = old.updated_at] # old

\* C9 as stated: created_at never changes, and every successful Edit moves
\* updated_at to a later time.
C9_AsStated ==
    [][/\ CreatedOnce
       /\ EditedStep =>
            After(req'.project_id).updated_at > Before(req'.project_id).updated_at]_vars

\* C9 amended: created_at never changes; a successful Edit that changes the
\* value of at least one column moves updated_at to the time of the Edit,
\* later than before, and one that changes none leaves updated_at as it was.
C9_Timestamps ==
    [][/\ CreatedOnce
       /\ EditedStep =>
            LET old == Before(req'.project_id)
                new == After(req'.project_id)
            IN  IF NetChange(old, new)
                THEN new.updated_at > old.updated_at /\ new.updated_at = now'
                ELSE new.updated_at = old.updated_at]_vars

\* an Edit has moved updated_at past created_at
C9_Witness ==
    /\ req.op = "edit_project"
    /\ resp = Redirect("projects", "Project updated.")
    /\ \E p \in Project :
         /\ p.id = req.project_id
         /\ p.tech_stack = <<"x">>
         /\ p.is_public
         /\ p.updated_at > p.created_at

\* this step is an Edit or a Delete of an id of which the user owns no project
NotMineStep ==
    /\ req'.op \in {"edit_project", "delete_project"}
    /\ is_authenticated
    /\ ~ \E p \in Project : p.id = req'.project_id /\ p.owner_id = session

\* C10: an Edit or Delete of an id the user owns no project of is answered
\* as an id that matches no project is, with 404, whoever owns it.
C10_NoExistenceLeak == [][NotMineStep => resp' = Abort(404)]_vars

====
